---- MODULE Spec2Model ----
(***************************************************************************)
(* A model of the chat assistant of app/main.py: the query guard           *)
(* (is_safe_query), the query executor (execute_database_query), the two   *)
(* tools the remote model may invoke (generate_query_sql, generate_button),*)
(* the tool dispatch (handle_tool_calls) and the chat handler              *)
(* (get_response) with its two module-level slots, _db_session and         *)
(* final_text; and of the product handlers of app/api/products.py          *)
(* (create_product, update_product, delete_product) with the object        *)
(* storage of app/core/minio_utils.py.                                     *)
(*                                                                         *)
(* A text is a sequence of one-character strings.                          *)
(***************************************************************************)
EXTENDS Integers, Sequences, FiniteSets, TLC

VARIABLES
    query,            \* SpecGuard: the text handed to is_safe_query
    validated,        \* SpecGuard: whether is_safe_query(query) has returned
    verdict,          \* SpecGuard: what is_safe_query(query) returned
    sent,             \* SpecExecutor: the text db.execute was called with
    objects,          \* SpecProducts: the keys of the objects in the bucket
    products,         \* SpecProducts: per id, the row of the jeans table
    created,          \* SpecProducts: the rows inserted so far
    uploads,          \* SpecProducts: the object keys generated so far
    _db_session,      \* module-level slot: the connection the data tool uses
    final_text,       \* module-level slot: the pending-response buffer
    txn,              \* per connection: the state of its transaction
    pc,               \* per request: where its handler's thread stands
    message,          \* per request: request.message
    calls,            \* per request: model calls made so far
    iteration_count,  \* per request: the local of get_response
    done,             \* per request: the local of get_response
    response,         \* per request: the latest model response
    pending,          \* per request: the function calls not yet dispatched
    status,           \* per request: the HTTP status it ended with, 0 before
    chat_response,    \* per request: the ChatResponse returned
    recorded,         \* per request: the argument of its last generate_button
    lastSql,          \* per request: its last generate_query_sql invocation
    failedOn,         \* per request: the connection its last execute raised on
    history,          \* per request: the local of get_response
    results,          \* per request: the local of handle_tool_calls
    raised            \* per request: the exception its handler caught

guardVars == <<query, validated, verdict, sent>>

productVars == <<objects, products, created, uploads>>

chatVars == <<_db_session, final_text, txn, pc, message, calls, iteration_count,
              done, response, pending, status, chat_response, recorded,
              lastSql, failedOn, history, results, raised>>

vars == <<guardVars, chatVars, productVars>>

None == "None"

(***************************************************************************)
(* Characters                                                              *)
(***************************************************************************)
LowerLetters ==
    <<"a","b","c","d","e","f","g","h","i","j","k","l","m",
      "n","o","p","q","r","s","t","u","v","w","x","y","z">>

UpperLetters ==
    <<"A","B","C","D","E","F","G","H","I","J","K","L","M",
      "N","O","P","Q","R","S","T","U","V","W","X","Y","Z">>

Digits == {"0","1","2","3","4","5","6","7","8","9"}

Range(s) == {s[i] : i \in DOMAIN s}

LowerSet == Range(LowerLetters)

\* str.upper() on one character
UpperChar(c) ==
    IF c \in LowerSet
    THEN UpperLetters[CHOOSE i \in 1..26 : LowerLetters[i] = c]
    ELSE c

\* str.upper()
Upper(s) == [i \in DOMAIN s |-> UpperChar(s[i])]

\* \w of the re module: letters, digits and the underscore
WordChars == Range(LowerLetters) \cup Range(UpperLetters) \cup Digits \cup {"_"}

WordChar(c) == c \in WordChars

\* the characters str.strip() removes
Whitespace == {" ", "\n", "\t", "\r"}

(***************************************************************************)
(* is_safe_query                                                           *)
(***************************************************************************)
\* whether text p occurs in s starting at index i
MatchAt(s, i, p) ==
    /\ i >= 1
    /\ i + Len(p) - 1 <= Len(s)
    /\ \A k \in 1..Len(p) : s[i + k - 1] = p[k]

\* re.sub(r'--.*$', '', query, flags=re.MULTILINE), scanning from index i:
\* a "--" and everything after it up to the end of its line is dropped,
\* the newline itself stays
RECURSIVE SubLineCommentsFrom(_, _, _)
SubLineCommentsFrom(s, i, inComment) ==
    IF i > Len(s) THEN <<>>
    ELSE IF inComment
         THEN IF s[i] = "\n"
              THEN <<s[i]>> \o SubLineCommentsFrom(s, i + 1, FALSE)
              ELSE SubLineCommentsFrom(s, i + 1, TRUE)
         ELSE IF MatchAt(s, i, <<"-", "-">>)
              THEN SubLineCommentsFrom(s, i + 2, TRUE)
              ELSE <<s[i]>> \o SubLineCommentsFrom(s, i + 1, FALSE)

SubLineComments(s) == SubLineCommentsFrom(s, 1, FALSE)

\* the index of the first "*/" at or after index i, 0 when there is none
RECURSIVE FindClose(_, _)
FindClose(s, i) ==
    IF i + 1 > Len(s) THEN 0
    ELSE IF MatchAt(s, i, <<"*", "/">>) THEN i
    ELSE FindClose(s, i + 1)

\* re.sub(r'/\*.*?\*/', '', query_cleaned, flags=re.DOTALL), scanning from
\* index i: a "/*" is dropped with everything up to the nearest "*/" that
\* starts after it; a "/*" with no "*/" after it stays as it is
RECURSIVE SubBlockCommentsFrom(_, _)
SubBlockCommentsFrom(s, i) ==
    IF i > Len(s) THEN <<>>
    ELSE IF MatchAt(s, i, <<"/", "*">>) /\ FindClose(s, i + 2) # 0
         THEN SubBlockCommentsFrom(s, FindClose(s, i + 2) + 2)
         ELSE <<s[i]>> \o SubBlockCommentsFrom(s, i + 1)

SubBlockComments(s) == SubBlockCommentsFrom(s, 1)

\* str.strip()
RECURSIVE LStrip(_)
LStrip(s) ==
    IF s # <<>> /\ Head(s) \in Whitespace THEN LStrip(Tail(s)) ELSE s

RECURSIVE RStrip(_)
RStrip(s) ==
    IF s # <<>> /\ s[Len(s)] \in Whitespace
    THEN RStrip(SubSeq(s, 1, Len(s) - 1))
    ELSE s

Strip(s) == RStrip(LStrip(s))

\* query_cleaned of is_safe_query
query_cleaned(q) == Upper(Strip(SubBlockComments(SubLineComments(q))))

\* str.startswith
StartsWith(s, p) == MatchAt(s, 1, p)

SELECT == <<"S","E","L","E","C","T">>

dangerous_keywords ==
    << <<"I","N","S","E","R","T">>,
       <<"U","P","D","A","T","E">>,
       <<"D","E","L","E","T","E">>,
       <<"D","R","O","P">>,
       <<"C","R","E","A","T","E">>,
       <<"A","L","T","E","R">>,
       <<"T","R","U","N","C","A","T","E">>,
       <<"R","E","P","L","A","C","E">>,
       <<"M","E","R","G","E">>,
       <<"G","R","A","N","T">>,
       <<"R","E","V","O","K","E">>,
       <<"E","X","E","C">>,
       <<"E","X","E","C","U","T","E">>,
       <<"C","A","L","L">>,
       <<"I","N","T","O">> >>

\* the mutant of StartsWithSelect: 'SELECT' in query_cleaned
StartsWithSelect_contains(c) ==
    \E i \in 1..Len(c) : MatchAt(c, i, SELECT)

\* query_cleaned.startswith('SELECT')
StartsWithSelect(c) == StartsWith(c, SELECT)

\* the mutant of KeywordSearch: the pattern without its \b anchors
KeywordSearch_unanchored(keyword, c) ==
    \E i \in 1..Len(c) : MatchAt(c, i, keyword)

\* re.search(r'\b' + keyword + r'\b', query_cleaned): the keyword occurs
\* with no word character right before it and none right after it
KeywordSearch(keyword, c) ==
    \E i \in 1..Len(c) :
        /\ MatchAt(c, i, keyword)
        /\ (i = 1 \/ ~WordChar(c[i - 1]))
        /\ (i + Len(keyword) - 1 = Len(c) \/ ~WordChar(c[i + Len(keyword)]))

\* the mutant of CleanedForSearch: the keywords are looked for in the
\* comment-stripped text before it is upper-cased
CleanedForSearch_caseSensitive(q) == Strip(SubBlockComments(SubLineComments(q)))

\* the text the keyword loop searches: query_cleaned
CleanedForSearch(q) == query_cleaned(q)

is_safe_query(q) ==
    IF ~StartsWithSelect(query_cleaned(q))
    THEN FALSE
    ELSE LET searched == CleanedForSearch(q)
         IN ~\E k \in DOMAIN dangerous_keywords :
                KeywordSearch(dangerous_keywords[k], searched)

(***************************************************************************)
(* execute_database_query and the tools                                    *)
(***************************************************************************)
\* The store as the executor sees it.  A connection's transaction is "ok"
\* or "aborted"; a statement raises when the store refuses it (storeOk is
\* the store's verdict on the statement) or when the transaction is already
\* aborted, and a raise leaves the transaction aborted.
StoreExecute(txnState, storeOk) ==
    IF txnState = "aborted" \/ ~storeOk
    THEN [raised |-> TRUE, txn |-> "aborted"]
    ELSE [raised |-> FALSE, txn |-> txnState]

\* the mutant of Rollback: the except clause without db.rollback()
Rollback_missing(txnState) == txnState

\* db.rollback()
Rollback(txnState) == "ok"

NotAllowed == [success |-> FALSE,
               error |-> "Query is not allowed. Only SELECT queries are permitted.",
               data |-> None]

QueryError == [success |-> FALSE, error |-> "Database query error", data |-> None]

NoSession == [success |-> FALSE, error |-> "Database session not available",
              data |-> None]

Rows == [success |-> TRUE, error |-> None, data |-> "rows"]

\* the mutant of execute_database_query: the statement is executed before
\* the guard's verdict is looked at
execute_database_query_unguarded(txnState, q, storeOk) ==
    LET executed == StoreExecute(txnState, storeOk)
    IN IF executed.raised
       THEN [result |-> QueryError, txn |-> Rollback(executed.txn),
             ops |-> <<"execute", "rollback">>]
       ELSE IF ~is_safe_query(q)
            THEN [result |-> NotAllowed, txn |-> executed.txn, ops |-> <<"execute">>]
            ELSE [result |-> Rows, txn |-> executed.txn, ops |-> <<"execute">>]

\* execute_database_query(db, query) on a connection whose transaction is in
\* txnState: the result returned, the transaction's state afterwards and the
\* operations performed on the connection
execute_database_query(txnState, q, storeOk) ==
    IF ~is_safe_query(q)
    THEN [result |-> NotAllowed, txn |-> txnState, ops |-> <<>>]
    ELSE LET executed == StoreExecute(txnState, storeOk)
         IN IF executed.raised
            THEN [result |-> QueryError, txn |-> Rollback(executed.txn),
                  ops |-> <<"execute", "rollback">>]
            ELSE [result |-> Rows, txn |-> executed.txn, ops |-> <<"execute">>]

\* the acknowledgment generate_button returns
ButtonsPrepared ==
    [success |-> TRUE,
     message |-> "Buttons prepared. Now provide your text response to the user."]

FunctionNotFound == [error |-> "Function not found"]

\* A list that may be None: Absent is None, Present(l) is the list l.
Absent == <<>>

Present(l) == <<l>>

\* final_text = {}: neither key is set
EmptyBuffer == [response |-> None, buttons |-> Absent]

\* the mutant of generate_button: the buttons are added to those recorded
generate_button_merged(buffer, buttons) ==
    [buffer EXCEPT !.buttons =
        IF @ = Absent THEN Present(buttons) ELSE Present(@[1] \o buttons)]

\* generate_button(buttons) on the buffer final_text:
\* final_text["buttons"] = buttons
generate_button(buffer, buttons) == [buffer EXCEPT !.buttons = Present(buttons)]

(***************************************************************************)
(* What the remote model may send                                          *)
(***************************************************************************)
\* the queries the model passes to generate_query_sql: one the guard
\* accepts and one it rejects
SelectOne == <<"S","e","l","e","c","t"," ","1">>

DropJeans == <<"D","R","O","P"," ","T","A","B","L","E"," ","j","e","a","n","s">>

ToolQueries == {SelectOne, DropJeans}

\* the button lists the model passes to generate_button
BrowseButton == [text |-> "Browse All Jeans", url |-> "/ecommerce"]

GamesButton == [text |-> "Games", url |-> "/games"]

ButtonLists == {<<>>, <<BrowseButton>>, <<GamesButton>>}

\* the tools declared to the model
DeclaredTools == {"generate_query_sql", "generate_button"}

\* Of the names the module's global namespace holds: its functions, here
\* the two tools and is_safe_query, and its objects that are no functions,
\* here the string system_prompt.
GlobalFunctions == {"generate_query_sql", "generate_button", "is_safe_query"}

GlobalObjects == {"system_prompt"}

\* the function calls of a model response: a declared tool with the
\* arguments it declares, a declared tool with a wrongly named argument
\* and without its required one, a name that is no global of the module,
\* and two names that are globals of the module but no declared tools
FunctionCalls ==
    {[name |-> "generate_query_sql", args |-> [query |-> q]] : q \in ToolQueries}
    \cup {[name |-> "generate_button", args |-> [buttons |-> b]] : b \in ButtonLists}
    \cup {[name |-> "generate_button", args |-> [text |-> "Games"]],
          [name |-> "summarize", args |-> [text |-> "Games"]],
          [name |-> "is_safe_query", args |-> [query |-> SelectOne]],
          [name |-> "system_prompt", args |-> [text |-> "Games"]]}

\* the parameters of the module's functions
Parameters(name) ==
    IF name \in {"generate_query_sql", "is_safe_query"} THEN {"query"} ELSE {"buttons"}

\* globals().get(tool_name) finds an object that is truthy
IsGlobal(name) == name \in GlobalFunctions \cup GlobalObjects

\* the object globals().get(tool_name) finds can be called
IsCallable(name) == name \in GlobalFunctions

\* tool(**arguments) binds: every parameter is given and nothing else
ArgumentsBind(call) == DOMAIN call.args = Parameters(call.name)

MaxFunctionCalls == 2

RECURSIVE CallLists(_, _)
CallLists(C, n) ==
    IF n = 0 THEN {<<>>}
    ELSE LET shorter == CallLists(C, n - 1)
         IN shorter \cup {l \o <<c>> : l \in shorter, c \in C}

\* the text the model writes to request r
TextFor(r) == "text for " \o r

\* the responses generate_content may return to request r, the function
\* calls of its parts being one of the lists of L: no candidates, a
\* candidate without content, or a candidate whose parts hold the function
\* calls of a list of L and maybe a text
Responses(r, L) ==
    {[candidates |-> FALSE, content |-> FALSE, text |-> None, function_calls |-> <<>>],
     [candidates |-> TRUE, content |-> FALSE, text |-> None, function_calls |-> <<>>]}
    \cup {[candidates |-> TRUE, content |-> TRUE, text |-> t, function_calls |-> l] :
            t \in {None, TextFor(r)}, l \in L}

(***************************************************************************)
(* handle_tool_calls and the history                                       *)
(***************************************************************************)
\* the names of a list of function calls or of function responses
Names(l) == [i \in DOMAIN l |-> l[i].name]

\* Of a message the history keeps the role and, in the order of its parts,
\* the names of the function calls and of the function responses it holds.
\* types.Content(role="user", parts=[types.Part(text=context_message)])
UserContent == [role |-> "user", function_calls |-> <<>>, function_responses |-> <<>>]

\* response.candidates[0].content
ModelContent(resp) ==
    [role |-> "model", function_calls |-> Names(resp.function_calls),
     function_responses |-> <<>>]

\* the mutant of ResponseContent: a message without parts
ResponseContent_empty(function_responses) ==
    [role |-> "user", function_calls |-> <<>>, function_responses |-> <<>>]

\* types.Content(role="user",
\*               parts=[types.Part(function_response=fr) for fr in function_responses])
ResponseContent(function_responses) ==
    [role |-> "user", function_calls |-> <<>>,
     function_responses |-> Names(function_responses)]

\* types.FunctionResponse(name=tool_name, response={"result": result})
FunctionResponse(tool_name, result) == [name |-> tool_name, response |-> result]

\* what is_safe_query returns when the model calls it as a tool
Returned_is_safe_query(q) == [returned |-> is_safe_query(q)]

(***************************************************************************)
(* get_response                                                            *)
(***************************************************************************)
max_iterations == 5

Fallback == "Here are some options for you:"

\* the mutant of LoopCondition: the bound tested with <=
LoopCondition_inclusive(isDone, count) == ~isDone /\ count <= max_iterations

\* while not done and iteration_count < max_iterations
LoopCondition(isDone, count) == ~isDone /\ count < max_iterations

\* bool(x) of a text that may be None
Truthy(x) == x # None /\ x # ""

\* bool(x) of a list that may be None
TruthyList(x) == x # Absent /\ x[1] # <<>>

\* the mutant of FallbackText: if not response_buttons and not response_text
FallbackText_negated(response_text, response_buttons) ==
    IF ~TruthyList(response_buttons) /\ ~Truthy(response_text)
    THEN Fallback
    ELSE response_text

\* if response_buttons and not response_text: response_text = "Here are ..."
FallbackText(response_text, response_buttons) ==
    IF TruthyList(response_buttons) /\ ~Truthy(response_text)
    THEN Fallback
    ELSE response_text

\* the mutant of FirstText: the text is looked for in no response
FirstText_ignored(resp) == None

\* the first part of response.candidates[0].content.parts that has a text,
\* None when the response has no candidate, no content or no such part
FirstText(resp) ==
    IF resp.candidates /\ resp.content /\ Truthy(resp.text) THEN resp.text ELSE None

\* the mutant of ExceptClause: the status of the exception caught is kept
ExceptClause_transparent(raisedStatus) == raisedStatus

\* except Exception as e: raise HTTPException(status_code=500, ...); the
\* clause catches every exception raised in the try block, the
\* HTTPException of the empty-message check included
ExceptClause(raisedStatus) == 500

\* request.message: empty or not
Messages == {"", "Show me RALPH LAUREN jeans"}

\* before the first model call returns, response holds nothing
NoResponse ==
    [candidates |-> FALSE, content |-> FALSE, text |-> None, function_calls |-> <<>>]

\* before the handler returns, no ChatResponse exists; found is the text the
\* handler found in final_text, before the fallback
NoChatResponse == [response |-> None, buttons |-> Absent, found |-> None]

\* before the request's first generate_query_sql
NoSql == [called |-> FALSE, session |-> None, query |-> <<>>, storeOk |-> FALSE,
          afterFailure |-> FALSE, ops |-> <<>>, result |-> NoSession]

\* A request arrives: FastAPI resolves db = Depends(get_db), a fresh
\* connection, and calls get_response on a worker thread.
Accept(r) ==
    /\ pc[r] = "idle"
    /\ \E m \in Messages : message' = [message EXCEPT ![r] = m]
    /\ pc' = [pc EXCEPT ![r] = "set_session"]
    /\ txn' = [txn EXCEPT ![r] = "ok"]
    /\ status' = [status EXCEPT ![r] = 0]
    /\ raised' = [raised EXCEPT ![r] = None]
    /\ UNCHANGED <<_db_session, final_text, calls, iteration_count, done,
                   response, pending, chat_response, recorded,
                   lastSql, failedOn, history, results, guardVars, productVars>>

\* _db_session = db
SetSession(r) ==
    /\ pc[r] = "set_session"
    /\ _db_session' = r
    /\ pc' = [pc EXCEPT ![r] = "reset"]
    /\ UNCHANGED <<final_text, txn, message, calls, iteration_count, done,
                   response, pending, status, chat_response, recorded,
                   lastSql, failedOn, history, results, raised, guardVars, productVars>>

\* final_text = {}
ResetBuffer(r) ==
    /\ pc[r] = "reset"
    /\ final_text' = EmptyBuffer
    /\ pc' = [pc EXCEPT ![r] = "check"]
    /\ UNCHANGED <<_db_session, txn, message, calls, iteration_count, done,
                   response, pending, status, chat_response, recorded,
                   lastSql, failedOn, history, results, raised, guardVars, productVars>>

\* if not request.message: raise HTTPException(status_code=400, ...), which
\* the except clause of the same try block catches; otherwise the history
\* is seeded with the user's message
CheckMessage(r) ==
    /\ pc[r] = "check"
    /\ IF message[r] = ""
       THEN /\ status' = [status EXCEPT ![r] = ExceptClause(400)]
            /\ raised' = [raised EXCEPT ![r] = "HTTPException"]
            /\ pc' = [pc EXCEPT ![r] = "finally"]
            /\ UNCHANGED history
       ELSE /\ pc' = [pc EXCEPT ![r] = "call"]
            /\ history' = [history EXCEPT ![r] = <<UserContent>>]
            /\ UNCHANGED <<status, raised>>
    /\ UNCHANGED <<_db_session, final_text, txn, message, calls,
                   iteration_count, done, response, pending, chat_response,
                   recorded, lastSql, failedOn, results, guardVars, productVars>>

\* client.models.generate_content(...) returns a response: the initial call
\* or the call that follows a turn's tool results; L holds the lists of
\* function calls the response may carry
GenerateContent(r, L) ==
    /\ pc[r] = "call"
    /\ calls' = [calls EXCEPT ![r] = @ + 1]
    /\ \E resp \in Responses(r, L) : response' = [response EXCEPT ![r] = resp]
    /\ pc' = [pc EXCEPT ![r] = "loop"]
    /\ UNCHANGED <<_db_session, final_text, txn, message, iteration_count,
                   done, pending, status, chat_response, recorded, lastSql,
                   failedOn, history, results, raised, guardVars, productVars>>

\* client.models.generate_content(...) raises
GenerateContentFails(r) ==
    /\ pc[r] = "call"
    /\ calls' = [calls EXCEPT ![r] = @ + 1]
    /\ status' = [status EXCEPT ![r] = ExceptClause(0)]
    /\ raised' = [raised EXCEPT ![r] = "APIError"]
    /\ pc' = [pc EXCEPT ![r] = "finally"]
    /\ UNCHANGED <<_db_session, final_text, txn, message, iteration_count,
                   done, response, pending, chat_response, recorded, lastSql,
                   failedOn, history, results, guardVars, productVars>>

\* one test of the while condition and, when it holds, the loop body up to
\* the call of handle_tool_calls, whose results list starts empty
Loop(r) ==
    /\ pc[r] = "loop"
    /\ IF LoopCondition(done[r], iteration_count[r])
       THEN /\ iteration_count' = [iteration_count EXCEPT ![r] = @ + 1]
            /\ IF ~response[r].candidates
               THEN \* break
                    /\ pc' = [pc EXCEPT ![r] = "extract"]
                    /\ UNCHANGED <<done, pending, status, history, results, raised>>
               ELSE IF ~response[r].content
               THEN \* model_content.parts of None raises; the history is
                    \* not sent again
                    /\ status' = [status EXCEPT ![r] = ExceptClause(0)]
                    /\ raised' = [raised EXCEPT ![r] = "AttributeError"]
                    /\ pc' = [pc EXCEPT ![r] = "finally"]
                    /\ UNCHANGED <<done, pending, history, results>>
               ELSE /\ history' = [history EXCEPT ![r] =
                           Append(@, ModelContent(response[r]))]
                    /\ IF response[r].function_calls # <<>>
                       THEN /\ pending' = [pending EXCEPT ![r] = response[r].function_calls]
                            /\ results' = [results EXCEPT ![r] = <<>>]
                            /\ pc' = [pc EXCEPT ![r] = "dispatch"]
                            /\ UNCHANGED <<done, status, raised>>
                       ELSE /\ done' = [done EXCEPT ![r] = TRUE]
                            /\ UNCHANGED <<pc, pending, status, results, raised>>
       ELSE /\ pc' = [pc EXCEPT ![r] = "extract"]
            /\ UNCHANGED <<iteration_count, done, pending, status, history,
                           results, raised>>
    /\ UNCHANGED <<_db_session, final_text, txn, message, calls, response,
                   chat_response, recorded, lastSql, failedOn, guardVars, productVars>>

\* One round of the loop of handle_tool_calls: the next function call is
\* looked up and called and its function response appended to results.
\* After the last round the results go to the history as one message and
\* the model is called again.  storeOk, drawn from V, is the store's verdict
\* on the statement, should generate_query_sql execute one.
Dispatch(r, V) ==
    /\ pc[r] = "dispatch"
    /\ pending[r] # <<>>
    /\ \E storeOk \in V :
        LET call == Head(pending[r])
            rest == Tail(pending[r])
            next == IF rest = <<>> THEN "call" ELSE "dispatch"
            Returns(result) ==
                LET function_responses ==
                        Append(results[r], FunctionResponse(call.name, result))
                IN /\ results' = [results EXCEPT ![r] = function_responses]
                   /\ history' = [history EXCEPT ![r] =
                          IF rest = <<>>
                          THEN Append(@, ResponseContent(function_responses))
                          ELSE @]
                   /\ pending' = [pending EXCEPT ![r] = rest]
                   /\ pc' = [pc EXCEPT ![r] = next]
                   /\ UNCHANGED <<status, raised>>
            Raises(exception) ==
                /\ status' = [status EXCEPT ![r] = ExceptClause(0)]
                /\ raised' = [raised EXCEPT ![r] = exception]
                /\ pc' = [pc EXCEPT ![r] = "finally"]
                /\ UNCHANGED <<pending, results, history>>
        IN IF ~IsGlobal(call.name)
           THEN \* {"error": "Function not found"}
                /\ Returns(FunctionNotFound)
                /\ UNCHANGED <<final_text, txn, recorded, lastSql, failedOn>>
           ELSE IF ~IsCallable(call.name) \/ ~ArgumentsBind(call)
           THEN \* tool(**arguments) raises TypeError
                /\ Raises("TypeError")
                /\ UNCHANGED <<final_text, txn, recorded, lastSql, failedOn>>
           ELSE IF call.name = "generate_button"
           THEN /\ final_text' = generate_button(final_text, call.args.buttons)
                /\ recorded' = [recorded EXCEPT ![r] = Present(call.args.buttons)]
                /\ Returns(ButtonsPrepared)
                /\ UNCHANGED <<txn, lastSql, failedOn>>
           ELSE IF call.name = "is_safe_query"
           THEN /\ Returns(Returned_is_safe_query(call.args.query))
                /\ UNCHANGED <<final_text, txn, recorded, lastSql, failedOn>>
           ELSE \* generate_query_sql
                /\ IF _db_session = None
                   THEN /\ lastSql' = [lastSql EXCEPT ![r] =
                               [called |-> TRUE, session |-> None,
                                query |-> call.args.query, storeOk |-> FALSE,
                                afterFailure |-> FALSE,
                                ops |-> <<>>, result |-> NoSession]]
                        /\ Returns(NoSession)
                        /\ UNCHANGED <<txn, failedOn>>
                   ELSE LET db == _db_session
                            out == execute_database_query(txn[db], call.args.query, storeOk)
                        IN /\ txn' = [txn EXCEPT ![db] = out.txn]
                           /\ lastSql' = [lastSql EXCEPT ![r] =
                                  [called |-> TRUE, session |-> db,
                                   query |-> call.args.query,
                                   storeOk |-> storeOk,
                                   afterFailure |-> (failedOn[r] = db),
                                   ops |-> out.ops, result |-> out.result]]
                           /\ failedOn' = [failedOn EXCEPT ![r] =
                                  IF out.result = QueryError THEN db ELSE None]
                           /\ Returns(out.result)
                /\ UNCHANGED <<final_text, recorded>>
    /\ UNCHANGED <<_db_session, message, calls, iteration_count, done,
                   response, chat_response, guardVars, productVars>>

\* the first text part of the latest response, when it has a candidate with
\* content, goes to final_text["response"]
Extract(r) ==
    /\ pc[r] = "extract"
    /\ LET text == FirstText(response[r])
       IN IF text # None
          THEN final_text' = [final_text EXCEPT !.response = text]
          ELSE UNCHANGED final_text
    /\ pc' = [pc EXCEPT ![r] = "assemble"]
    /\ UNCHANGED <<_db_session, txn, message, calls, iteration_count, done,
                   response, pending, status, chat_response, recorded,
                   lastSql, failedOn, history, results, raised, guardVars, productVars>>

\* final_text is read, the fallback applied and the ChatResponse returned
Assemble(r) ==
    /\ pc[r] = "assemble"
    /\ LET response_text == final_text.response
           response_buttons == final_text.buttons
       IN chat_response' = [chat_response EXCEPT ![r] =
              [response |-> FallbackText(response_text, response_buttons),
               buttons |-> response_buttons,
               found |-> response_text]]
    /\ status' = [status EXCEPT ![r] = 200]
    /\ pc' = [pc EXCEPT ![r] = "finally"]
    /\ UNCHANGED <<_db_session, final_text, txn, message, calls,
                   iteration_count, done, response, pending, recorded,
                   lastSql, failedOn, history, results, raised, guardVars, productVars>>

\* the mutant of Finally: the handler is left without the two resets
Finally_skipped(r) ==
    /\ pc[r] = "finally"
    /\ pc' = [pc EXCEPT ![r] = "idle"]
    /\ message' = [message EXCEPT ![r] = ""]
    /\ calls' = [calls EXCEPT ![r] = 0]
    /\ iteration_count' = [iteration_count EXCEPT ![r] = 0]
    /\ done' = [done EXCEPT ![r] = FALSE]
    /\ response' = [response EXCEPT ![r] = NoResponse]
    /\ pending' = [pending EXCEPT ![r] = <<>>]
    /\ chat_response' = [chat_response EXCEPT ![r] = NoChatResponse]
    /\ recorded' = [recorded EXCEPT ![r] = Absent]
    /\ lastSql' = [lastSql EXCEPT ![r] = NoSql]
    /\ failedOn' = [failedOn EXCEPT ![r] = None]
    /\ history' = [history EXCEPT ![r] = <<>>]
    /\ results' = [results EXCEPT ![r] = <<>>]
    /\ UNCHANGED <<_db_session, final_text, txn, status, raised, guardVars, productVars>>

\* finally: _db_session = None; final_text = {}.  The handler is left: the
\* ChatResponse or the HTTPException goes to the client, the locals of the
\* call are gone and the slot is free for the next request.  status and
\* raised keep what the client was sent until the slot's next request.
Finally(r) ==
    /\ pc[r] = "finally"
    /\ _db_session' = None
    /\ final_text' = EmptyBuffer
    /\ pc' = [pc EXCEPT ![r] = "idle"]
    /\ message' = [message EXCEPT ![r] = ""]
    /\ calls' = [calls EXCEPT ![r] = 0]
    /\ iteration_count' = [iteration_count EXCEPT ![r] = 0]
    /\ done' = [done EXCEPT ![r] = FALSE]
    /\ response' = [response EXCEPT ![r] = NoResponse]
    /\ pending' = [pending EXCEPT ![r] = <<>>]
    /\ chat_response' = [chat_response EXCEPT ![r] = NoChatResponse]
    /\ recorded' = [recorded EXCEPT ![r] = Absent]
    /\ lastSql' = [lastSql EXCEPT ![r] = NoSql]
    /\ failedOn' = [failedOn EXCEPT ![r] = None]
    /\ history' = [history EXCEPT ![r] = <<>>]
    /\ results' = [results EXCEPT ![r] = <<>>]
    /\ UNCHANGED <<txn, status, raised, guardVars, productVars>>

\* the state of the module once imported, with the request slots R idle
ChatInit(R) ==
    /\ _db_session = None
    /\ final_text = EmptyBuffer
    /\ txn = [r \in R |-> "ok"]
    /\ pc = [r \in R |-> "idle"]
    /\ message = [r \in R |-> ""]
    /\ calls = [r \in R |-> 0]
    /\ iteration_count = [r \in R |-> 0]
    /\ done = [r \in R |-> FALSE]
    /\ response = [r \in R |-> NoResponse]
    /\ pending = [r \in R |-> <<>>]
    /\ status = [r \in R |-> 0]
    /\ chat_response = [r \in R |-> NoChatResponse]
    /\ recorded = [r \in R |-> Absent]
    /\ lastSql = [r \in R |-> NoSql]
    /\ failedOn = [r \in R |-> None]
    /\ history = [r \in R |-> <<>>]
    /\ results = [r \in R |-> <<>>]
    /\ raised = [r \in R |-> None]

(***************************************************************************)
(* The product handlers of app/api/products.py and the object storage of   *)
(* app/core/minio_utils.py                                                 *)
(***************************************************************************)
MaxKeys == 3

MaxProducts == 2

\* the object keys upload_file may generate and a client may name
Keys == 1..MaxKeys

ProductIds == 1..MaxProducts

\* list(jean.images_minio or [])
KeysOf(images_minio) == IF images_minio = Absent THEN <<>> ELSE images_minio[1]

\* keys if keys else None
ListOrNone(keys) == IF keys # <<>> THEN Present(keys) ELSE Absent

\* no row under the id
NoProduct == [stored |-> FALSE, images_minio |-> Absent]

\* the keys _upload_files generates for its first u files
NewKeys(u) == [i \in 1..u |-> uploads + i]

\* [k for k in existing if k not in to_remove]
RECURSIVE Remaining(_, _)
Remaining(existing, to_remove) ==
    IF existing = <<>> THEN <<>>
    ELSE IF Head(existing) \in to_remove
         THEN Remaining(Tail(existing), to_remove)
         ELSE <<Head(existing)>> \o Remaining(Tail(existing), to_remove)

\* an empty table and an empty bucket
ProductInit ==
    /\ objects = {}
    /\ products = [id \in ProductIds |-> NoProduct]
    /\ created = 0
    /\ uploads = 0

\* _upload_files(files) with n files: u of them are put in the bucket, and
\* when u < n the upload of the next one raises
Uploaded(n, u) ==
    /\ u \in 0..n
    /\ objects' = objects \cup {uploads + i : i \in 1..u}
    /\ uploads' = uploads + u

\* create_product: the files are uploaded, then the row is added and
\* committed.  An upload or the commit may raise; the session is then
\* closed without the row.
create_product ==
    /\ created < MaxProducts
    /\ \E n \in 0..(MaxKeys - uploads), commitOk \in BOOLEAN :
        \E u \in 0..n :
            /\ Uploaded(n, u)
            /\ IF u = n /\ commitOk
               THEN /\ products' = [products EXCEPT ![created + 1] =
                           [stored |-> TRUE, images_minio |-> ListOrNone(NewKeys(u))]]
                    /\ created' = created + 1
               ELSE UNCHANGED <<products, created>>
    /\ UNCHANGED <<guardVars, chatVars>>

\* update_product(product_id, remove_keys, files) on a row that exists:
\* delete_file is called for every key of to_remove, the keys of deleted
\* being those whose object the storage deleted (delete_file swallows a
\* ClientError, any other exception leaves the handler); then the files
\* are uploaded and the row is committed with the remaining and the new
\* keys.  When the handler raises the session is closed without the change.
update_product(product_id) ==
    /\ products[product_id].stored
    /\ \E to_remove \in SUBSET Keys, deleteRaises \in BOOLEAN, commitOk \in BOOLEAN :
        \E deleted \in SUBSET to_remove, n \in 0..(MaxKeys - uploads) :
            \E u \in 0..n :
                LET existing == Remaining(KeysOf(products[product_id].images_minio),
                                         to_remove)
                IN IF deleteRaises
                   THEN /\ objects' = objects \ deleted
                        /\ UNCHANGED <<products, uploads>>
                   ELSE /\ objects' = (objects \ deleted) \cup {uploads + i : i \in 1..u}
                        /\ uploads' = uploads + u
                        /\ IF u = n /\ commitOk
                           THEN products' = [products EXCEPT ![product_id].images_minio =
                                                ListOrNone(existing \o NewKeys(u))]
                           ELSE UNCHANGED products
    /\ UNCHANGED <<created, guardVars, chatVars>>

\* delete_product(product_id) on a row that exists: delete_files is called
\* on the row's keys, the keys of deleted being those whose object the
\* storage deleted; then the row is deleted and the deletion committed.
delete_product(product_id) ==
    /\ products[product_id].stored
    /\ \E deleteRaises \in BOOLEAN, commitOk \in BOOLEAN :
        \E deleted \in SUBSET Range(KeysOf(products[product_id].images_minio)) :
            /\ objects' = objects \ deleted
            /\ IF ~deleteRaises /\ commitOk
               THEN products' = [products EXCEPT ![product_id] = NoProduct]
               ELSE UNCHANGED products
    /\ UNCHANGED <<created, uploads, guardVars, chatVars>>

(***************************************************************************)
(* The specifications                                                      *)
(***************************************************************************)
\* is_safe_query and execute_database_query have not been called
GuardIdle ==
    /\ query = <<>>
    /\ validated = FALSE
    /\ verdict = FALSE
    /\ sent = Absent

\* the two function calls of the requests that run deep
QuerySql == [name |-> "generate_query_sql", args |-> [query |-> SelectOne]]

BrowseJeans == [name |-> "generate_button", args |-> [buttons |-> <<BrowseButton>>]]

ShowGames == [name |-> "generate_button", args |-> [buttons |-> <<GamesButton>>]]

(***************************************************************************)
(* Spec: requests handled one after another, the model asking for tools   *)
(* in as many of its responses as it likes                                 *)
(***************************************************************************)
SequentialRequests == {"r1"}

\* the function calls of one response: none, one or two
SequentialTurns ==
    {<<>>, <<QuerySql>>, <<BrowseJeans>>, <<ShowGames>>,
     <<BrowseJeans, QuerySql>>, <<BrowseJeans, ShowGames>>}

Init ==
    /\ ChatInit(SequentialRequests)
    /\ GuardIdle
    /\ ProductInit

Next ==
    \E r \in SequentialRequests :
        \/ Accept(r)
        \/ SetSession(r)
        \/ ResetBuffer(r)
        \/ CheckMessage(r)
        \/ GenerateContent(r, SequentialTurns)
        \/ GenerateContentFails(r)
        \/ Loop(r)
        \/ Dispatch(r, BOOLEAN)
        \/ Extract(r)
        \/ Assemble(r)
        \/ Finally(r)

Spec == Init /\ [][Next]_vars

(***************************************************************************)
(* SpecTurn: requests handled one after another, the model asking for      *)
(* tools in its first response only, with every list of at most            *)
(* MaxFunctionCalls function calls                                         *)
(***************************************************************************)
FirstTurns(r) ==
    IF calls[r] = 0 THEN CallLists(FunctionCalls, MaxFunctionCalls) ELSE {<<>>}

TurnNext ==
    \E r \in SequentialRequests :
        \/ Accept(r)
        \/ SetSession(r)
        \/ ResetBuffer(r)
        \/ CheckMessage(r)
        \/ GenerateContent(r, FirstTurns(r))
        \/ GenerateContentFails(r)
        \/ Loop(r)
        \/ Dispatch(r, BOOLEAN)
        \/ Extract(r)
        \/ Assemble(r)
        \/ Finally(r)

SpecTurn == Init /\ [][TurnNext]_vars

(***************************************************************************)
(* SpecConcurrent: two requests in progress at once, each on its own       *)
(* worker thread; a step of one thread is one access to the module-level   *)
(* slots.  The model asks r1 for queries and r2 for buttons, one function  *)
(* call a response.                                                        *)
(***************************************************************************)
ConcurrentRequests == {"r1", "r2"}

ConcurrentTurns(r) ==
    IF r = "r1" THEN {<<>>, <<QuerySql>>} ELSE {<<>>, <<BrowseJeans>>}

ConcurrentInit ==
    /\ ChatInit(ConcurrentRequests)
    /\ GuardIdle
    /\ ProductInit

ConcurrentNext ==
    \E r \in ConcurrentRequests :
        \/ Accept(r)
        \/ SetSession(r)
        \/ ResetBuffer(r)
        \/ CheckMessage(r)
        \/ GenerateContent(r, ConcurrentTurns(r))
        \/ GenerateContentFails(r)
        \/ Loop(r)
        \/ Dispatch(r, {TRUE})
        \/ Extract(r)
        \/ Assemble(r)
        \/ Finally(r)

SpecConcurrent == ConcurrentInit /\ [][ConcurrentNext]_vars

(***************************************************************************)
(* SpecGuard: is_safe_query applied to every text built from at most       *)
(* MaxFragments fragments                                                  *)
(***************************************************************************)
MaxFragments == 5

Fragments ==
    { <<"S","e","l","e","c","t"," ">>,
      <<"\n">>,
      <<"-","-">>,
      <<"/","*">>,
      <<"*","/">>,
      <<"I","N">>,
      <<"t","o">> }

RECURSIVE Texts(_)
Texts(n) ==
    IF n = 0 THEN {<<>>}
    ELSE LET shorter == Texts(n - 1)
         IN shorter \cup {t \o f : t \in shorter, f \in Fragments}

GuardInit ==
    /\ query \in Texts(MaxFragments)
    /\ validated = FALSE
    /\ verdict = FALSE
    /\ sent = Absent
    /\ ChatInit({})
    /\ ProductInit

\* is_safe_query(query) is called and returns
Validate ==
    /\ ~validated
    /\ validated' = TRUE
    /\ verdict' = is_safe_query(query)
    /\ UNCHANGED <<query, sent, chatVars, productVars>>

GuardNext == Validate

SpecGuard == GuardInit /\ [][GuardNext]_vars

(***************************************************************************)
(* SpecExecutor: execute_database_query applied, on a usable connection,   *)
(* to every text built from at most MaxFragments fragments, string         *)
(* delimiters among them                                                   *)
(***************************************************************************)
ExecutorFragments ==
    { <<"S","e","l","e","c","t"," ">>,
      <<"\n">>,
      <<"'">>,
      <<"-","-">>,
      <<"/","*">>,
      <<"*","/">>,
      <<"I","N","T","O">> }

RECURSIVE ExecutorTexts(_)
ExecutorTexts(n) ==
    IF n = 0 THEN {<<>>}
    ELSE LET shorter == ExecutorTexts(n - 1)
         IN shorter \cup {t \o f : t \in shorter, f \in ExecutorFragments}

ExecutorInit ==
    /\ query \in ExecutorTexts(MaxFragments)
    /\ validated = FALSE
    /\ verdict = FALSE
    /\ sent = Absent
    /\ ChatInit({})
    /\ ProductInit

\* execute_database_query(db, query) is called and returns; db.execute
\* receives text(query), the query as it was passed
Execute ==
    /\ ~validated
    /\ \E storeOk \in BOOLEAN :
        LET out == execute_database_query("ok", query, storeOk)
        IN /\ validated' = TRUE
           /\ verdict' = out.result.success
           /\ sent' = IF out.ops # <<>> THEN Present(query) ELSE Absent
    /\ UNCHANGED <<query, chatVars, productVars>>

ExecutorNext == Execute

SpecExecutor == ExecutorInit /\ [][ExecutorNext]_vars

(***************************************************************************)
(* SpecProducts: the product handlers called one after another, on at      *)
(* most MaxProducts rows and MaxKeys uploads                               *)
(***************************************************************************)
ProductsInit ==
    /\ ProductInit
    /\ GuardIdle
    /\ ChatInit({})

ProductsNext ==
    \/ create_product
    \/ \E product_id \in ProductIds : update_product(product_id)
    \/ \E product_id \in ProductIds : delete_product(product_id)

SpecProducts == ProductsInit /\ [][ProductsNext]_vars

(***************************************************************************)
(* The chat handler's claims                                               *)
(***************************************************************************)
\* the requests of the specification at hand
Requests == DOMAIN pc

\* the handler of r has its outcome and is about to leave through finally
Returned(r) == pc[r] = "finally" /\ status[r] = 200

\* the model's final turn of r, the content of its latest response, holds
\* no text
FinalTurnHasNoText(r) ==
    response[r].candidates /\ response[r].content /\ ~Truthy(response[r].text)

\* C1 as stated: one chat request makes at most 5 calls to the model, the
\* initial call included, whatever the model answers.
C1_AtMostFiveCalls == \A r \in Requests : calls[r] <= 5

\* C1: one chat request makes at most 6 calls to the model, the initial call
\* and one more after each of at most max_iterations rounds of tool
\* dispatch; a 7th call is never made.
C1_AtMostSixCalls == \A r \in Requests : calls[r] <= max_iterations + 1

\* C1's case: the model asked for a tool in every response and the handler
\* returned after its 6th call
C1_Witness ==
    \E r \in Requests :
        /\ Returned(r)
        /\ calls[r] = max_iterations + 1
        /\ iteration_count[r] = max_iterations
        /\ response[r].function_calls # <<>>

\* C2: a chat request whose message is empty ends with HTTP status 400, and
\* no model call is made for it.
C2_EmptyMessageIs400 ==
    \A r \in Requests :
        (pc[r] = "finally" /\ message[r] = "") => (status[r] = 400 /\ calls[r] = 0)

\* C3: every generate_query_sql invocation made on behalf of a request runs
\* on that request's own connection: never on another request's, and never
\* finding the connection absent.
C3_OwnConnection ==
    \A r \in Requests : lastSql[r].called => lastSql[r].session = r

\* C4: the buttons of a request's response are exactly those its own
\* generate_button invocations recorded.
C4_OwnButtons ==
    \A r \in Requests : Returned(r) => chat_response[r].buttons = recorded[r]

\* C5 as stated: whenever generate_button was invoked during a request and
\* the model's final turn holds no text, the response text is the fallback,
\* for every argument of the invocation.
C5_FallbackForEveryArgument ==
    \A r \in Requests :
        (Returned(r) /\ recorded[r] # Absent /\ FinalTurnHasNoText(r))
            => chat_response[r].response = Fallback

\* C5: whenever the response carries a non-empty button list and the handler
\* found no text in the buffer, the response text is the fallback and not
\* null.
C5_FallbackForButtons ==
    \A r \in Requests :
        (/\ Returned(r)
         /\ TruthyList(chat_response[r].buttons)
         /\ ~Truthy(chat_response[r].found))
            => (chat_response[r].response = Fallback /\ chat_response[r].response # None)

\* C5's case: generate_button recorded a non-empty list, the model's final
\* turn held no text and the handler returned
C5_Witness ==
    \E r \in Requests :
        /\ Returned(r)
        /\ TruthyList(recorded[r])
        /\ chat_response[r].buttons = recorded[r]
        /\ FinalTurnHasNoText(r)
        /\ chat_response[r].response = Fallback

\* C6: execute_database_query on a query the guard rejects performs no
\* operation on the connection and returns success=false, data=null.
C6_RejectedNeverExecuted ==
    \A r \in Requests :
        (/\ lastSql[r].called
         /\ lastSql[r].session # None
         /\ ~is_safe_query(lastSql[r].query))
            => (/\ lastSql[r].ops = <<>>
                /\ lastSql[r].result.success = FALSE
                /\ lastSql[r].result.data = None)

\* C6's case: execute_database_query has returned for a rejected query
C6_Witness ==
    \E r \in Requests :
        /\ lastSql[r].called
        /\ lastSql[r].session = r
        /\ ~is_safe_query(lastSql[r].query)
        /\ lastSql[r].result = NotAllowed

\* C7: when the store raises on a guard-accepted query, the executor rolls
\* the transaction back and returns success=false with an error string, and
\* the next valid query of the request on that connection succeeds.
C7_RollbackKeepsConnectionUsable ==
    \A r \in Requests :
        (/\ lastSql[r].called
         /\ lastSql[r].session # None
         /\ is_safe_query(lastSql[r].query))
            => /\ ~lastSql[r].storeOk =>
                    (/\ lastSql[r].ops = <<"execute", "rollback">>
                     /\ lastSql[r].result.success = FALSE
                     /\ lastSql[r].result.error # None
                     /\ lastSql[r].result.data = None
                     /\ txn[lastSql[r].session] = "ok")
               /\ (lastSql[r].afterFailure /\ lastSql[r].storeOk) =>
                    (/\ lastSql[r].result.success = TRUE
                     /\ lastSql[r].ops = <<"execute">>)

\* C7's case: a valid query has succeeded on the connection on which the
\* request's previous query made the store raise
C7_Witness ==
    \E r \in Requests :
        /\ lastSql[r].called
        /\ lastSql[r].session = r
        /\ lastSql[r].afterFailure
        /\ lastSql[r].storeOk
        /\ is_safe_query(lastSql[r].query)
        /\ lastSql[r].result.success = TRUE

\* the text of the latest model response of r, None when it has none
LatestText(r) ==
    IF response[r].candidates /\ response[r].content THEN response[r].text ELSE None

\* the model responses r has received
Received(r) == IF raised[r] = "APIError" THEN calls[r] - 1 ELSE calls[r]

\* C11: every function response to a function call whose name is no
\* declared tool holds the result {error: "Function not found"}, no function
\* of the module having been called for it, and no such function call ends
\* the turn with an exception.
C11_UndeclaredNotFound ==
    \A r \in Requests :
        /\ \A i \in DOMAIN results[r] :
              results[r][i].name \notin DeclaredTools
                  => results[r][i].response = FunctionNotFound
        /\ (raised[r] = "TypeError" /\ pc[r] = "finally")
              => Head(pending[r]).name \in DeclaredTools

\* C12: no request ends in a 500 because of a tool invocation: whatever the
\* name and the arguments of a function call, the dispatch raises nothing.
C12_DispatchNeverRaises ==
    \A r \in Requests : raised[r] = "TypeError" => status[r] # 500

\* C13: once a model call of a request has failed, the initial one or a
\* later one, the handler does nothing but leave with HTTP status 500: no
\* further model call, no further tool dispatch.
C13_ModelFailureEndsRequest ==
    \A r \in Requests :
        raised[r] = "APIError"
            => /\ status[r] = 500
               /\ pc[r] \in {"finally", "idle"}

\* C13's case: a model call that follows a turn's tool results has failed
C13_Witness ==
    \E r \in Requests :
        /\ raised[r] = "APIError"
        /\ pc[r] = "finally"
        /\ calls[r] >= 2
        /\ Len(history[r]) >= 3
        /\ status[r] = 500

\* C14: a request whose latest model response has no candidates ends as a
\* failure, with HTTP status 500 and no chat response.
C14_NoCandidatesIsFailure ==
    \A r \in Requests :
        (pc[r] = "finally" /\ Received(r) >= 1 /\ ~response[r].candidates)
            => status[r] = 500

\* C15: with requests handled one after another, whenever no handler is
\* running, or one has been entered and has not yet written the slots, the
\* connection slot is None and the pending-response buffer is empty,
\* whichever way the previous handler was left.
C15_SlotsClearedOnExit ==
    \A r \in Requests :
        pc[r] \in {"idle", "set_session"}
            => (_db_session = None /\ final_text = EmptyBuffer)

\* C15's case: a handler that had made model calls was left through an
\* exception other than the empty-message one
C15_Witness ==
    \E r \in Requests :
        /\ pc[r] = "idle"
        /\ status[r] = 500
        /\ raised[r] = "AttributeError"
        /\ _db_session = None
        /\ final_text = EmptyBuffer

\* the loop of r stopped because iteration_count reached max_iterations:
\* the response to the call that followed the last round's tool results
\* is not looked at by the loop
BudgetExhausted(r) ==
    /\ ~done[r]
    /\ iteration_count[r] = max_iterations
    /\ Received(r) = max_iterations + 1

ResultsFollowCalls(h) ==
    \A i \in DOMAIN h :
        (h[i].role = "model" /\ h[i].function_calls # <<>>)
            => /\ i < Len(h)
               /\ h[i + 1].role = "user"
               /\ h[i + 1].function_responses = h[i].function_calls

\* C18: whenever the model is about to be called, no function call of the
\* latest model turn is left without a result, and in the history sent each
\* model message that holds function calls is followed at once by the
\* message that holds that turn's results.
C18_ResultsBeforeNextCall ==
    \A r \in Requests :
        pc[r] = "call" => (pending[r] = <<>> /\ ResultsFollowCalls(history[r]))

\* C18's case: the sixth model call is about to be made, a turn of two
\* function calls among the five before it
C18_Witness ==
    \E r \in Requests :
        /\ pc[r] = "call"
        /\ calls[r] = max_iterations
        /\ Len(history[r]) = 2 * max_iterations + 1
        /\ \E i \in DOMAIN history[r] : Len(history[r][i].function_calls) = 2
        /\ ResultsFollowCalls(history[r])

\* C19: when the handler is left, every model response received is in the
\* history and every function call of every model message has been
\* dispatched, its result in the message that follows, same position, same
\* name.
C19_EveryCallDispatched ==
    \A r \in Requests :
        pc[r] = "finally"
            => /\ pending[r] = <<>>
               /\ response[r].function_calls # <<>>
                      => Cardinality({i \in DOMAIN history[r] :
                                        history[r][i].role = "model"}) = Received(r)
               /\ ResultsFollowCalls(history[r])

\* C20: once a model response without function calls has been received, no
\* tool is dispatched and no further model call is made, and the text of
\* that response, if any, is the text of the chat response.
C20_NoCallsEndsLoop ==
    \A r \in Requests :
        (Received(r) >= 1 /\ response[r].function_calls = <<>>)
            => /\ pc[r] \notin {"call", "dispatch"}
               /\ pending[r] = <<>>
               /\ (Returned(r) /\ LatestText(r) # None)
                      => chat_response[r].response = LatestText(r)

\* C20's case: the handler returned the text of a response without
\* function calls that followed a tool turn
C20_Witness ==
    \E r \in Requests :
        /\ Returned(r)
        /\ calls[r] >= 2
        /\ done[r]
        /\ response[r].function_calls = <<>>
        /\ chat_response[r].response = TextFor(r)

\* the generate_button invocations among the function responses l
ButtonInvocations(l) == {i \in DOMAIN l : l[i].name = "generate_button"}

\* C22: with requests handled one after another, the buttons in the buffer
\* and in the chat response are the argument of the request's last
\* generate_button invocation alone, and no response text is recorded while
\* tools are dispatched: an invocation leaves the text as it was.
C22_LastInvocationWins ==
    \A r \in Requests :
        /\ pc[r] \in {"call", "loop", "dispatch", "extract", "assemble", "finally"}
              => final_text.buttons = recorded[r]
        /\ Returned(r) => chat_response[r].buttons = recorded[r]
        /\ pc[r] \in {"call", "loop", "dispatch"} => final_text.response = None

\* C22's case: the handler returned after generate_button invocations in
\* two turns, the last turn invoking it twice, with the buttons of the last
\* invocation
C22_Witness ==
    \E r \in Requests :
        /\ Returned(r)
        /\ Cardinality(ButtonInvocations(results[r])) = 2
        /\ Cardinality({i \in DOMAIN history[r] :
              "generate_button" \in Range(history[r][i].function_calls)}) >= 2
        /\ recorded[r] = Present(<<GamesButton>>)
        /\ chat_response[r].buttons = Present(<<GamesButton>>)

(***************************************************************************)
(* The guard's claims                                                      *)
(***************************************************************************)
KeywordSet == Range(dangerous_keywords)

\* the index of the last character of the run of word characters that
\* holds index i
RECURSIVE WordEnd(_, _)
WordEnd(s, i) ==
    IF i < Len(s) /\ WordChar(s[i + 1]) THEN WordEnd(s, i + 1) ELSE i

\* the whole words of s (its maximal runs of word characters), upper-cased
WordsOf(s) ==
    { Upper(SubSeq(s, i, WordEnd(s, i))) :
        i \in {k \in 1..Len(s) : WordChar(s[k]) /\ (k = 1 \/ ~WordChar(s[k - 1]))} }

\* some whole word of s is a denylisted keyword, in any letter case
ContainsKeywordAsWord(s) == WordsOf(s) \cap KeywordSet # {}

\* some denylisted keyword occurs in s, in any letter case, starting after
\* index from, as a proper part of a longer word
ContainsKeywordInsideWord(s, from) ==
    \E i \in (from + 1)..Len(s) : \E j \in i..Len(s) :
        /\ Upper(SubSeq(s, i, j)) \in KeywordSet
        /\ \/ (i > 1 /\ WordChar(s[i - 1]))
           \/ (j < Len(s) /\ WordChar(s[j + 1]))

\* s begins with SELECT, in any letter case
BeginsWithSelect(s) ==
    /\ Len(s) >= Len(SELECT)
    /\ Upper(SubSeq(s, 1, Len(SELECT))) = SELECT

\* the query with its line comments, then its block comments, removed
CommentsRemoved(q) == SubBlockComments(SubLineComments(q))

\* the query holds a comment the guard removes
HasComment(q) == CommentsRemoved(q) # q

\* C8 as stated: every query that contains a denylisted keyword as a whole
\* word, in any letter case and at any position, is rejected.
C8_AnyPosition ==
    (validated /\ ContainsKeywordAsWord(query)) => (verdict = FALSE)

\* C8: every query that still contains a denylisted keyword as a whole
\* word, in any letter case and at any position, once the guard has removed
\* its comments is rejected, also when it begins with SELECT.
C8_KeywordRejected ==
    (validated /\ ContainsKeywordAsWord(CommentsRemoved(query)))
        => (verdict = FALSE)

\* C8's case: a query that begins with SELECT, holds a comment and keeps a
\* keyword in mixed case as a whole word after the comment is removed
C8_Witness ==
    /\ validated
    /\ verdict = FALSE
    /\ BeginsWithSelect(Strip(CommentsRemoved(query)))
    /\ HasComment(query)
    /\ ContainsKeywordAsWord(CommentsRemoved(query))
    /\ CommentsRemoved(query) # Upper(CommentsRemoved(query))

\* C9: every query whose text, after the removal of line comments and block
\* comments and trimming, does not begin with SELECT in any letter case is
\* rejected.
C9_NonSelectRejected ==
    (validated /\ ~BeginsWithSelect(Strip(CommentsRemoved(query))))
        => (verdict = FALSE)

\* C9's case: a comment-only query has been rejected
C9_Witness ==
    /\ validated
    /\ verdict = FALSE
    /\ query # <<>>
    /\ HasComment(query)
    /\ Strip(CommentsRemoved(query)) = <<>>

\* C10 as stated: a query that begins with SELECT and in which no
\* denylisted keyword occurs as a whole word (keywords occur only as proper
\* parts of longer words) is accepted.
C10_RawWholeWordOnly ==
    (validated /\ BeginsWithSelect(query) /\ ~ContainsKeywordAsWord(query))
        => (verdict = TRUE)

\* C10: a query whose comment-stripped, trimmed text begins with SELECT and
\* in whose comment-stripped text no denylisted keyword occurs as a whole
\* word (keywords occur only as proper parts of longer words) is accepted.
C10_WholeWordOnly ==
    (/\ validated
     /\ BeginsWithSelect(Strip(CommentsRemoved(query)))
     /\ ~ContainsKeywordAsWord(CommentsRemoved(query)))
        => (verdict = TRUE)

\* C10's case: an accepted query in which a keyword occurs, after the
\* leading SELECT, as a proper part of a longer word
C10_Witness ==
    /\ validated
    /\ verdict = TRUE
    /\ BeginsWithSelect(query)
    /\ ContainsKeywordInsideWord(query, Len(SELECT))

(***************************************************************************)
(* The executor's claim                                                    *)
(***************************************************************************)
\* The text s as the store reads it from index i on: a string literal (from
\* a single quote to the next), a line comment (from -- to the end of the
\* line) and a block comment (from /* to the next */) each count as one
\* space; within a literal the comment delimiters are literal text.
RECURSIVE StoreReadsFrom(_, _, _)
StoreReadsFrom(s, i, mode) ==
    IF i > Len(s) THEN <<>>
    ELSE IF mode = "literal"
         THEN IF s[i] = "'"
              THEN StoreReadsFrom(s, i + 1, "code")
              ELSE StoreReadsFrom(s, i + 1, "literal")
    ELSE IF mode = "line"
         THEN IF s[i] = "\n"
              THEN <<"\n">> \o StoreReadsFrom(s, i + 1, "code")
              ELSE StoreReadsFrom(s, i + 1, "line")
    ELSE IF mode = "block"
         THEN IF MatchAt(s, i, <<"*","/">>)
              THEN StoreReadsFrom(s, i + 2, "code")
              ELSE StoreReadsFrom(s, i + 1, "block")
    ELSE IF s[i] = "'"
         THEN <<" ">> \o StoreReadsFrom(s, i + 1, "literal")
    ELSE IF MatchAt(s, i, <<"-","-">>)
         THEN <<" ">> \o StoreReadsFrom(s, i + 2, "line")
    ELSE IF MatchAt(s, i, <<"/","*">>)
         THEN <<" ">> \o StoreReadsFrom(s, i + 2, "block")
    ELSE <<s[i]>> \o StoreReadsFrom(s, i + 1, "code")

StoreReads(s) == StoreReadsFrom(s, 1, "code")

\* C21: every query the executor sends to the store, read as the store
\* reads it, holds no denylisted keyword outside comments and string
\* literals.
C21_StoreSeesNoKeyword ==
    sent # Absent => ~ContainsKeywordAsWord(StoreReads(sent[1]))

(***************************************************************************)
(* The product handlers' claim                                             *)
(***************************************************************************)
\* C23: after any sequence of create_product, update_product and
\* delete_product calls, complete or failed part-way, every key listed in
\* the images_minio of a stored product is the key of an object in the
\* bucket.
C23_ImagesExist ==
    \A id \in ProductIds :
        products[id].stored
            => Range(KeysOf(products[id].images_minio)) \subseteq objects

====
